---- MODULE Spec2Model ----
(***************************************************************************)
(* A model of the Sokoban solver: the push-move board of game/Sokoban.py   *)
(* and the Monte-Carlo tree search of agent/MCTS.py.                       *)
(*                                                                         *)
(* Coordinates are 0-based as in the source: a position is <<x, y>> with x *)
(* the row and y the column, a push is <<player_x, player_y, dx, dy>>.     *)
(* A level (the numpy array) is a function from positions to elements.     *)
(***************************************************************************)
EXTENDS Integers, Sequences, FiniteSets, TLC

VARIABLES
    board,        \* the SokobanBoard under study: the board handed to MCTS(...)
    heap,         \* the Node objects, by creation order (index 1 is mcts.root)
    nodes,        \* MCTS.nodes: hash -> index of its Node in heap
    del_nodes,    \* MCTS.del_nodes: set of hashes
    simulations,  \* the argument of MCTS.run
    i,            \* the loop index of MCTS.run
    pc,           \* "board" | "running" | "returned" | "raised"
    result,       \* what run returned: [none |-> BOOLEAN, moves |-> sequence]
    err,          \* the exception that ended run ("" while there is none)
    hist,         \* history: for each Node, the values update() was called with
    oplog,        \* history: (keys of nodes, del_nodes) after each operation
                  \* of the last step
    rmlog         \* history: the calls of Node.remove in the last step

vars == <<board, heap, nodes, del_nodes, simulations, i, pc, result, err, hist, oplog,
          rmlog>>

-----------------------------------------------------------------------------
(* Bounds of the model *)

MaxSims == 9      \* largest simulations budget handed to run
MaxBoxes == 2     \* most boxes on a generated board
MaxPushes == 2    \* most pushes applied to a generated board

-----------------------------------------------------------------------------
(* game/GameElements.py: the cell kinds and the level-file characters *)

WALL == "WALL"
FLOOR == "FLOOR"
GOAL == "GOAL"
BOX == "BOX"
BOX_ON_GOAL == "BOX_ON_GOAL"
PLAYER == "PLAYER"
PLAYER_ON_GOAL == "PLAYER_ON_GOAL"

char_to_element(c) ==
    CASE c = "#" -> WALL
      [] c = " " -> FLOOR
      [] c = "." -> GOAL
      [] c = "$" -> BOX
      [] c = "*" -> BOX_ON_GOAL
      [] c = "@" -> PLAYER
      [] c = "+" -> PLAYER_ON_GOAL

MAX_STEP == 1000

\* the four directions, in the order every loop of the source visits them
Dirs == << <<0, 1>>, <<1, 0>>, <<0, -1>>, <<-1, 0>> >>

-----------------------------------------------------------------------------
(* Generic helpers *)

Range(s) == { s[k] : k \in DOMAIN s }

\* lexicographic order on integer tuples of one length (Python's tuple order)
RECURSIVE LexLess(_, _)
LexLess(a, b) ==
    IF a = <<>> THEN FALSE
    ELSE IF Head(a) # Head(b) THEN Head(a) < Head(b)
    ELSE LexLess(Tail(a), Tail(b))

\* sorted(...) of a list without duplicates, given as the set of its items
RECURSIVE sorted(_)
sorted(S) ==
    IF S = {} THEN <<>>
    ELSE LET m == CHOOSE p \in S : \A q \in S : p = q \/ LexLess(p, q)
         IN <<m>> \o sorted(S \ {m})

Abs(n) == IF n < 0 THEN -n ELSE n

Min(S) == CHOOSE m \in S : \A n \in S : m <= n

-----------------------------------------------------------------------------
(* SokobanBoard *)

\* level.shape
shape(level) ==
    << Cardinality({ p[1] : p \in DOMAIN level }),
       Cardinality({ p[2] : p \in DOMAIN level }) >>

\* lines: the rows of a level file, each a sequence of characters
load_level(lines) ==
    LET height == Len(lines)
        width == CHOOSE w \in { Len(lines[r]) : r \in 1..height } :
                     \A r \in 1..height : Len(lines[r]) <= w
    IN [ p \in (0..(height - 1)) \X (0..(width - 1)) |->
           IF p[2] + 1 <= Len(lines[p[1] + 1])
           THEN char_to_element(lines[p[1] + 1][p[2] + 1])
           ELSE WALL ]

\* np.where lists positions in row-major order
find_elements(level, elements) ==
    sorted({ p \in DOMAIN level : level[p] \in elements })

\* 0 <= x < level.shape[0] and 0 <= y < level.shape[1]: the positions of the
\* array are exactly those
is_valid_move(level, x, y) == <<x, y>> \in DOMAIN level

\* the for loop over the four directions inside find_interior's while loop;
\* st = <<interior, positions>>
RECURSIVE interior_dirs(_, _, _, _)
interior_dirs(level, p, k, st) ==
    IF k > Len(Dirs) THEN st
    ELSE LET new == <<p[1] + Dirs[k][1], p[2] + Dirs[k][2]>>
         IN IF /\ is_valid_move(level, new[1], new[2])
               /\ level[new] \notin {WALL, BOX, BOX_ON_GOAL}
               /\ new \notin Range(st[1])
            THEN interior_dirs(level, p, k + 1,
                               <<Append(st[1], new), Append(st[2], new)>>)
            ELSE interior_dirs(level, p, k + 1, st)

RECURSIVE interior_loop(_, _)
interior_loop(level, st) ==
    IF st[2] = <<>> THEN st[1]
    ELSE interior_loop(level,
                       interior_dirs(level, Head(st[2]), 1, <<st[1], Tail(st[2])>>))

\* the list find_interior returns, in the order the search found the cells
find_interior(level, player) ==
    interior_loop(level, << <<player>>, <<player>> >>)

\* str(list of tuples), as the sequence of its tokens: "[" is -1, "]" is -2,
\* "(" is -3, ")" is -4, and a coordinate is itself (never negative)
RECURSIVE str(_)
str(list) ==
    IF list = <<>> THEN <<-1, -2>>
    ELSE LET rest == str(Tail(list))
         IN <<-1, -3, Head(list)[1], Head(list)[2], -4>> \o Tail(rest)

\* a hash that forgets the interior
get_hash_boxes_only(interior, box_positions) == str(box_positions)

get_hash(interior, box_positions) == str(interior) \o str(box_positions)

\* SokobanBoard(level=..., player=..., steps=..., max_steps=...)
SokobanBoard(level, player, steps, max_steps) ==
    LET interior == sorted(Range(find_interior(level, player)))
        box_positions == find_elements(level, {BOX, BOX_ON_GOAL})
    IN [ level |-> level, player |-> player, steps |-> steps,
         max_steps |-> max_steps, interior |-> interior,
         box_positions |-> box_positions,
         hash |-> get_hash(interior, box_positions) ]

\* SokobanBoard(level_id, pre, max_steps=...): the level comes from its file
LoadBoard(lines, max_steps) ==
    LET level == load_level(lines)
        player == find_elements(level, {PLAYER, PLAYER_ON_GOAL})[1]
    IN SokobanBoard(level, player, 0, max_steps)

\* valid_moves without its second loop (the test of the cell behind the box)
valid_moves_unfiltered(B) ==
    LET box_positions == find_elements(B.level, {BOX, BOX_ON_GOAL})
        interior == Range(find_interior(B.level, B.player))
    IN { <<b[1] - d[1], b[2] - d[2], d[1], d[2]>> :
           b \in Range(box_positions),
           d \in { e \in Range(Dirs) : TRUE } }
       \cap { <<q[1], q[2], d[1], d[2]>> : q \in interior, d \in Range(Dirs) }

valid_moves(B) ==
    LET box_positions == find_elements(B.level, {BOX, BOX_ON_GOAL})
        interior == Range(find_interior(B.level, B.player))
        valid_moves_ ==
            { t \in { << <<b[1] - d[1], b[2] - d[2]>>, d, b >> :
                        b \in Range(box_positions), d \in Range(Dirs) } :
                t[1] \in interior }
    IN { <<t[1][1], t[1][2], t[2][1], t[2][2]>> :
           t \in { u \in valid_moves_ :
                     B.level[<<u[3][1] + u[2][1], u[3][2] + u[2][2]>>]
                        \notin {BOX, BOX_ON_GOAL, WALL} } }

\* the three writes of move to the copied level
move_remove_player(B) ==
    [B.level EXCEPT ![B.player] = IF @ = PLAYER THEN FLOOR ELSE GOAL]

\* a box write that forgets the goal under the box
move_box_no_goal(level, m) ==
    [level EXCEPT ![<<m[1] + 2 * m[3], m[2] + 2 * m[4]>>] = BOX]

move_box(level, m) ==
    [level EXCEPT ![<<m[1] + 2 * m[3], m[2] + 2 * m[4]>>] =
        IF @ \in {FLOOR, PLAYER} THEN BOX ELSE BOX_ON_GOAL]

move_player(level, m) ==
    [level EXCEPT ![<<m[1] + m[3], m[2] + m[4]>>] =
        IF @ = BOX THEN PLAYER ELSE PLAYER_ON_GOAL]

\* new_level once move has written it
move_level(B, m) == move_player(move_box(move_remove_player(B), m), m)

\* the board move returns (when none of its assertions fails)
move(B, m) ==
    SokobanBoard(move_level(B, m), <<m[1] + m[3], m[2] + m[4]>>,
                 B.steps + 1, MAX_STEP)

\* the conjunction of the assertions of move
move_asserts(B, m) ==
    LET l1 == move_remove_player(B)
        l2 == move_box(l1, m)
        new_board == move(B, m)
        boxes(l) == Len(find_elements(l, {BOX, BOX_ON_GOAL}))
        goals(l) == Len(find_elements(l, {GOAL, BOX_ON_GOAL, PLAYER_ON_GOAL}))
    IN /\ B.level[B.player] \in {PLAYER, PLAYER_ON_GOAL}
       /\ l1[<<m[1] + 2 * m[3], m[2] + 2 * m[4]>>]
             \in {PLAYER, PLAYER_ON_GOAL, FLOOR, GOAL}
       /\ l2[<<m[1] + m[3], m[2] + m[4]>>] \in {BOX, BOX_ON_GOAL}
       /\ boxes(B.level) = boxes(new_board.level)
       /\ goals(B.level) = goals(new_board.level)
       /\ Len(find_elements(new_board.level, {PLAYER, PLAYER_ON_GOAL})) = 1

copy(B) == SokobanBoard(B.level, B.player, B.steps, MAX_STEP)

\* a corner test that is content with one wall
is_deadlocked_one_wall(level, box) ==
    IF level[box] = BOX_ON_GOAL THEN FALSE
    ELSE \E k \in 1..Len(Dirs) :
            level[<<box[1] + Dirs[k][1], box[2] + Dirs[k][2]>>] = WALL

is_deadlocked(level, box) ==
    IF level[box] = BOX_ON_GOAL THEN FALSE
    ELSE \E k \in 1..Len(Dirs) :
            LET d1 == Dirs[k]
                d2 == << <<1, 0>>, <<0, -1>>, <<-1, 0>>, <<0, 1>> >>[k]
            IN /\ level[<<box[1] + d1[1], box[2] + d1[2]>>] = WALL
               /\ level[<<box[1] + d2[1], box[2] + d2[2]>>] = WALL

check_deadlock(B) ==
    \/ valid_moves(B) = {}
    \/ \E box \in Range(find_elements(B.level, {BOX, BOX_ON_GOAL})) :
          is_deadlocked(B.level, box)

\* reward_functions/min_cost_matching.py: the cheapest assignment of the
\* boxes to distinct goals, a pair costing its Manhattan distance
RECURSIVE matching(_, _)
matching(boxes, goals) ==
    IF boxes = <<>> THEN 0
    ELSE LET b == Head(boxes)
         IN Min({ Abs(b[1] - g[1]) + Abs(b[2] - g[2])
                    + matching(Tail(boxes), goals \ {g}) : g \in goals })

min_cost_matching(B) ==
    matching(find_elements(B.level, {BOX, BOX_ON_GOAL}),
             Range(find_elements(B.level, {GOAL, BOX_ON_GOAL, PLAYER_ON_GOAL})))

Reward(value, reward_type) == [value |-> value, reward_type |-> reward_type]

\* a reward that never looks at the step budget
reward_no_budget(B) ==
    LET r == 0 - min_cost_matching(B)
    IN IF Len(find_elements(B.level, {BOX})) = 0 THEN Reward(r, "WIN")
       ELSE IF check_deadlock(B) THEN Reward(r, "LOSS")
            ELSE Reward(r, "STEP")

reward(B) ==
    LET r == 0 - min_cost_matching(B)
    IN IF Len(find_elements(B.level, {BOX})) = 0 THEN Reward(r, "WIN")
       ELSE IF \/ check_deadlock(B)
               \/ B.steps > B.max_steps
               \/ Len(find_elements(B.level, {BOX})) = 0
            THEN Reward(r, "LOSS")
            ELSE Reward(r, "STEP")

-----------------------------------------------------------------------------
(* The boards a run can meet: every push sequence from a board *)

\* a position of the game without its counters
Position(B) == [level |-> B.level, player |-> B.player]

Successors(P) ==
    { [level |-> move_level(P, m), player |-> <<m[1] + m[3], m[2] + m[4]>>] :
        m \in valid_moves(P) }

RECURSIVE closure(_, _)
closure(frontier, seen) ==
    IF frontier = {} THEN seen
    ELSE LET next == (UNION { Successors(P) : P \in frontier }) \ seen
         IN closure(next, seen \cup next)

\* the positions one or more valid pushes away from B
Descendants(B) == closure(Successors(Position(B)), Successors(Position(B)))

\* the kind of reward() on a position (the step budget left aside)
Kind(P) ==
    reward([level |-> P.level, player |-> P.player, steps |-> 0,
            max_steps |-> MAX_STEP]).reward_type

IsWin(P) == Kind(P) = "WIN"

WinReachable(B) ==
    \/ IsWin(Position(B))
    \/ \E P \in Descendants(B) : IsWin(P)

-----------------------------------------------------------------------------
(* Boards: the wall layouts, and every placement of goals, boxes and player *)

Room ==
    << <<"#", "#", "#", "#", "#">>,
       <<"#", " ", " ", " ", "#">>,
       <<"#", " ", " ", " ", "#">>,
       <<"#", "#", "#", "#", "#">> >>

Layouts == {Room}

MaxStepsChoices == {0, MAX_STEP}

FreeCells(walls) == { p \in DOMAIN walls : walls[p] # WALL }

\* the level with the given goals, boxes and player on the given walls
Place(walls, goals, boxes, player) ==
    [ p \in DOMAIN walls |->
        IF walls[p] = WALL THEN WALL
        ELSE IF p \in boxes THEN (IF p \in goals THEN BOX_ON_GOAL ELSE BOX)
        ELSE IF p = player THEN (IF p \in goals THEN PLAYER_ON_GOAL ELSE PLAYER)
        ELSE IF p \in goals THEN GOAL ELSE FLOOR ]

\* the well-formed boards on a layout: as many goals as boxes, one player
Placements(walls) ==
    LET free == FreeCells(walls)
        sets == { S \in SUBSET free : Cardinality(S) \in 1..MaxBoxes }
    IN { <<goals, boxes, player>> \in sets \X sets \X free :
            /\ Cardinality(goals) = Cardinality(boxes)
            /\ player \notin boxes }

NoResult == [none |-> FALSE, moves |-> <<>>]

BoardInit ==
    /\ \E lines \in Layouts, max_steps \in MaxStepsChoices :
          \E t \in Placements(load_level(lines)) :
              board = SokobanBoard(Place(load_level(lines), t[1], t[2], t[3]),
                                   t[3], 0, max_steps)
    /\ heap = <<>>
    /\ nodes = <<>>
    /\ del_nodes = {}
    /\ simulations = 0
    /\ i = 0
    /\ pc = "board"
    /\ result = NoResult
    /\ err = ""
    /\ hist = <<>>
    /\ oplog = <<>>
    /\ rmlog = <<>>

\* board.move(*m) for a push m of board.valid_moves()
Push ==
    /\ pc = "board"
    /\ board.steps < MaxPushes
    /\ \E m \in valid_moves(board) :
          IF move_asserts(board, m)
          THEN /\ board' = move(board, m)
               /\ UNCHANGED <<pc, err>>
          ELSE /\ pc' = "raised"
               /\ err' = "AssertionError"
               /\ UNCHANGED board
    /\ UNCHANGED <<heap, nodes, del_nodes, simulations, i, result, hist, oplog,
                   rmlog>>

\* board.copy()
Copy ==
    /\ pc = "board"
    /\ board' = copy(board)
    /\ UNCHANGED <<heap, nodes, del_nodes, simulations, i, pc, result, err,
                   hist, oplog, rmlog>>

BoardNext == Push \/ Copy

BoardSpec == BoardInit /\ [][BoardNext]_vars

\* SokobanBoard(level=..., player=..., steps=..., max_steps=...): a board
\* constructed with steps already counted, under a budget of its own
StepsChoices == 0..MaxPushes

BudgetChoices == {0, MaxPushes - 1, MAX_STEP}

BudgetInit ==
    /\ \E lines \in Layouts, steps \in StepsChoices, max_steps \in BudgetChoices :
          \E t \in Placements(load_level(lines)) :
              board = SokobanBoard(Place(load_level(lines), t[1], t[2], t[3]),
                                   t[3], steps, max_steps)
    /\ heap = <<>>
    /\ nodes = <<>>
    /\ del_nodes = {}
    /\ simulations = 0
    /\ i = 0
    /\ pc = "board"
    /\ result = NoResult
    /\ err = ""
    /\ hist = <<>>
    /\ oplog = <<>>
    /\ rmlog = <<>>

BudgetSpec == BudgetInit /\ [][BoardNext]_vars

-----------------------------------------------------------------------------
(* agent/MCTS.py: Node *)

C_PUT == 32
D_PUT == 8
LOOKAHEAD == 7

None == 0          \* the parent of the root, and select_child's "no child"
NoMove == <<>>     \* the move of the root

\* q is a float in the source; here it is the exact fraction <<num, den>>,
\* den > 0, in lowest terms
RECURSIVE GCD(_, _)
GCD(a, b) == IF b = 0 THEN a ELSE GCD(b, a % b)

Fraction(num, den) ==
    LET g == GCD(Abs(num), den)
    IN IF num = 0 THEN <<0, 1>> ELSE <<num \div g, den \div g>>

\* Node(parent, state, move, depth)
Node(parent, state, move_, depth) ==
    LET r == reward(state)
    IN [ depth |-> depth, move |-> move_, state |-> state, parent |-> parent,
         children |-> <<>>, q |-> <<0, 1>>, n |-> 0, reward |-> r,
         max_value |-> r, sum_of_squares |-> r.value * r.value ]

\* f without the key k (del f[k])
Drop(f, k) ==
    IF DOMAIN f \ {k} = {} THEN <<>> ELSE [ x \in DOMAIN f \ {k} |-> f[x] ]

\* the world the methods of Node and MCTS work on: the Node objects, the two
\* registries of the MCTS, the exception raised (if any), and the histories
World == [ heap |-> heap, nodes |-> nodes, del_nodes |-> del_nodes, err |-> "",
           hist |-> hist, oplog |-> <<>>, rmlog |-> <<>> ]

Raise(w, e) == [w EXCEPT !.err = e]

\* history: the registries as an operation leaves them
Logged(w) ==
    [w EXCEPT !.oplog = Append(@, [keys |-> DOMAIN w.nodes, del |-> w.del_nodes])]

\* a wrong mean: the old mean is not weighted by its count
update_q_unweighted(q, n, value) ==
    Fraction(q[1] + value * q[2], q[2] * (n + 1))

\* (self.q * self.n + value) / (self.n + 1)
update_q(q, n, value) ==
    Fraction(q[1] * n + value * q[2], q[2] * (n + 1))

\* a max_value that only the node rolled out keeps
update_max_value_leaf_only(nd, max_value) ==
    IF DOMAIN nd.children = {} /\ nd.max_value.value < max_value.value
    THEN max_value ELSE nd.max_value

\* the max_value of a node after update(value, max_value)
update_max_value(nd, max_value) ==
    IF nd.max_value.value < max_value.value THEN max_value ELSE nd.max_value

\* an update that stops at the node and leaves its ancestors alone
update_self_only(w, id, value, max_value) ==
    LET nd == w.heap[id]
    IN [w EXCEPT
          !.heap[id] = [nd EXCEPT
              !.q = update_q(nd.q, nd.n, value),
              !.n = nd.n + 1,
              !.sum_of_squares = nd.sum_of_squares + value * value,
              !.max_value = update_max_value(nd, max_value)],
          !.hist[id] = Append(@, value)]

RECURSIVE update(_, _, _, _)
update(w, id, value, max_value) ==
    LET nd == w.heap[id]
        w1 == [w EXCEPT
                 !.heap[id] = [nd EXCEPT
                     !.q = update_q(nd.q, nd.n, value),
                     !.n = nd.n + 1,
                     !.sum_of_squares = nd.sum_of_squares + value * value,
                     !.max_value = update_max_value(nd, max_value)],
                 !.hist[id] = Append(@, value)]
    IN IF nd.parent # None THEN update(w1, nd.parent, value, max_value) ELSE w1

\* a test that is content with a node that is no win
should_remove_with_children(w, id) ==
    w.heap[id].max_value.reward_type # "WIN"

should_remove(w, id) ==
    /\ DOMAIN w.heap[id].children = {}
    /\ w.heap[id].max_value.reward_type # "WIN"

\* "node in mcts.del_nodes": del_nodes holds hashes (strings) and a Node
\* compares by identity, so a Node is never one of its elements
node_in_del_nodes(w, id) == FALSE

\* remove that leaves the hash in mcts.nodes
RECURSIVE remove_keeps_key(_, _)
remove_keeps_key(w, id) ==
    LET nd == w.heap[id]
        w1 == [w EXCEPT !.del_nodes = @ \cup {nd.state.hash}]
    IN IF DOMAIN nd.children # {} THEN Raise(Logged(w1), "AssertionError")
       ELSE IF nd.parent = None THEN Logged(w1)
       ELSE LET parent == nd.parent
                w3 == [w1 EXCEPT !.heap[parent].children = Drop(@, nd.move)]
            IN IF should_remove(w3, parent) \/ node_in_del_nodes(w3, parent)
               THEN remove_keeps_key(Logged(w3), parent)
               ELSE Logged(w3)

\* history: a call of remove on the node id, with the number of children
\* the node has; and what the call met once it had unlinked the node
Removal(w, id) ==
    [ node |-> id, children |-> Cardinality(DOMAIN w.heap[id].children),
      unlinked |-> FALSE, parent_empty |-> FALSE, parent_win |-> FALSE,
      cascaded |-> FALSE ]

Unlinked(r, w, parent, cascaded) ==
    [ r EXCEPT !.unlinked = TRUE,
               !.parent_empty = (DOMAIN w.heap[parent].children = {}),
               !.parent_win = (w.heap[parent].max_value.reward_type = "WIN"),
               !.cascaded = cascaded ]

Recorded(w, r) == [Logged(w) EXCEPT !.rmlog = Append(@, r)]

RECURSIVE remove(_, _)
remove(w, id) ==
    LET nd == w.heap[id]
        r == Removal(w, id)
        w1 == [w EXCEPT !.del_nodes = @ \cup {nd.state.hash}]
    IN IF nd.state.hash \notin DOMAIN w1.nodes
       THEN Raise(Recorded(w1, r), "KeyError")
       ELSE LET w2 == [w1 EXCEPT !.nodes = Drop(@, nd.state.hash)]
            IN IF DOMAIN nd.children # {} THEN Raise(Recorded(w2, r), "AssertionError")
               ELSE IF nd.parent = None THEN Recorded(w2, r)
               ELSE LET parent == nd.parent
                    IN IF nd.move \notin DOMAIN w2.heap[parent].children
                       THEN Raise(Recorded(w2, r), "KeyError")
                       ELSE LET w3 == [w2 EXCEPT !.heap[parent].children =
                                                     Drop(@, nd.move)]
                                cascade == \/ should_remove(w3, parent)
                                           \/ node_in_del_nodes(w3, parent)
                            IN IF cascade
                               THEN remove(Recorded(w3, Unlinked(r, w3, parent, TRUE)),
                                           parent)
                               ELSE Recorded(w3, Unlinked(r, w3, parent, FALSE))

\* the test of expand_node's first loop: does the successor get a node?
is_fresh_ignoring_deleted(w, new_hash) == new_hash \notin DOMAIN w.nodes

\* a test that takes every successor for new
is_fresh_always(w, new_hash) == TRUE

\* a test that forgets the nodes of the tree
is_fresh_ignoring_registered(w, new_hash) == new_hash \notin w.del_nodes

is_fresh(w, new_hash) ==
    ~ (new_hash \in w.del_nodes \/ new_hash \in DOMAIN w.nodes)

\* the first loop of expand_node over the moves left; returns <<w, added>>
RECURSIVE expand_add(_, _, _, _)
expand_add(w, id, moves, added) ==
    IF moves = <<>> \/ w.err # "" THEN <<w, added>>
    ELSE LET m == Head(moves)
             state == w.heap[id].state
         IN IF ~ move_asserts(state, m) THEN <<Raise(w, "AssertionError"), added>>
            ELSE LET new_state == move(state, m)
                     new_hash == new_state.hash
                     child == Len(w.heap) + 1
                 IN IF is_fresh(w, new_hash)
                    THEN expand_add(
                           [w EXCEPT
                              !.heap = Append([@ EXCEPT ![id].children =
                                                   (m :> child) @@ @],
                                              Node(id, new_state, m,
                                                   w.heap[id].depth + 1)),
                              !.hist = Append(@, <<>>),
                              !.nodes = (new_hash :> child) @@ @],
                           id, Tail(moves), added + 1)
                    ELSE expand_add(w, id, Tail(moves), added)

\* a second loop that removes nothing
expand_prune_nothing(w, id, moves) == w

\* a second loop that removes every child that is not a win
RECURSIVE expand_prune_not_win(_, _, _)
expand_prune_not_win(w, id, moves) ==
    IF moves = <<>> \/ w.err # "" THEN w
    ELSE LET m == Head(moves)
         IN IF m \in DOMAIN w.heap[id].children
            THEN LET child == w.heap[id].children[m]
                 IN IF \/ w.heap[child].reward.reward_type # "WIN"
                       \/ node_in_del_nodes(w, child)
                    THEN IF should_remove(w, child)
                         THEN expand_prune_not_win(remove(w, child), id, Tail(moves))
                         ELSE Raise(w, "AssertionError")
                    ELSE expand_prune_not_win(w, id, Tail(moves))
            ELSE expand_prune_not_win(w, id, Tail(moves))

\* the second loop of expand_node over the moves left
RECURSIVE expand_prune(_, _, _)
expand_prune(w, id, moves) ==
    IF moves = <<>> \/ w.err # "" THEN w
    ELSE LET m == Head(moves)
         IN IF m \in DOMAIN w.heap[id].children
            THEN LET child == w.heap[id].children[m]
                 IN IF \/ w.heap[child].reward.reward_type = "LOSS"
                       \/ node_in_del_nodes(w, child)
                    THEN IF should_remove(w, child)
                         THEN expand_prune(remove(w, child), id, Tail(moves))
                         ELSE Raise(w, "AssertionError")
                    ELSE expand_prune(w, id, Tail(moves))
            ELSE expand_prune(w, id, Tail(moves))

\* the AssertionError of "assert self.should_remove() and (not self in
\* mcts.del_nodes)", told apart from those of the other assert statements
AssertNoChildAdded == "AssertionError (no child added)"

\* valid_moves is a list made of a set: the loops visit it in an order the
\* source does not fix; the model visits it in sorted order
expand_node(w, id, valid_moves_) ==
    LET moves == sorted(valid_moves_)
        a == expand_add(w, id, moves, 0)
        w2 == expand_prune(a[1], id, moves)
    IN IF w2.err # "" THEN w2
       ELSE IF a[2] = 0
            THEN IF should_remove(w2, id) /\ ~ node_in_del_nodes(w2, id)
                 THEN remove(w2, id)
                 ELSE Raise(w2, AssertNoChildAdded)
            ELSE Logged(w2)

\* the candidates of select_child.  Among visited children the source takes
\* one of best score q + u; u is floating-point (sqrt, log), so the model lets
\* any child be the best
select_child(w, id) ==
    LET children == Range(w.heap[id].children)
        unvisited == { c \in children : w.heap[c].n = 0 }
    IN IF children = {} THEN {None}
       ELSE IF unvisited # {} THEN unvisited
       ELSE children

\* a select_move that takes the move of any child
select_move_any(w, id) ==
    IF DOMAIN w.heap[id].children = {} THEN {NoMove}
    ELSE { w.heap[c].move : c \in Range(w.heap[id].children) }

\* the moves select_move may return (None: no children)
select_move(w, id) ==
    LET children == Range(w.heap[id].children)
        best_value == CHOOSE v \in { w.heap[c].max_value.value : c \in children } :
                         \A c \in children : w.heap[c].max_value.value <= v
    IN IF children = {} THEN {NoMove}
       ELSE { w.heap[c].move :
                c \in { d \in children : w.heap[d].max_value.value = best_value } }

\* set(state.hash): the set of the characters of the hash, each a string of
\* length one
set_of_chars(hash) == { <<hash[k]>> : k \in DOMAIN hash }

\* the for loop of rollout over the moves left of one dequeued state;
\* st = [q, visited, max_reward, returned, put]; put is history: the hashes
\* of the boards q.put was called with, in order
RECURSIVE rollout_moves(_, _, _, _)
rollout_moves(state, depth, moves, st) ==
    IF moves = <<>> \/ st.returned THEN st
    ELSE LET new_state == move(state, Head(moves))
             r == reward(new_state)
         IN IF r.reward_type = "WIN"
            THEN [st EXCEPT !.returned = TRUE, !.max_reward = r]
            ELSE IF r.reward_type = "STEP" /\ new_state.hash \notin st.visited
                 THEN rollout_moves(state, depth, Tail(moves),
                        [st EXCEPT
                           !.visited = @ \cup {new_state.hash},
                           !.max_reward = IF r.value > @.value THEN r ELSE @,
                           !.q = Append(@, <<new_state, depth + 1>>),
                           !.put = Append(@, new_state.hash)])
                 ELSE rollout_moves(state, depth, Tail(moves), st)

\* a while loop that stops one level early
RECURSIVE rollout_loop_shallow(_)
rollout_loop_shallow(st) ==
    IF st.q = <<>> \/ st.returned THEN st
    ELSE LET state == Head(st.q)[1]
             depth == Head(st.q)[2]
         IN IF depth = LOOKAHEAD - 1 THEN st
            ELSE rollout_loop_shallow(
                   rollout_moves(state, depth, sorted(valid_moves(state)),
                                 [st EXCEPT !.q = Tail(@)]))

RECURSIVE rollout_loop(_)
rollout_loop(st) ==
    IF st.q = <<>> \/ st.returned THEN st
    ELSE LET state == Head(st.q)[1]
             depth == Head(st.q)[2]
         IN IF depth = LOOKAHEAD THEN st
            ELSE rollout_loop(rollout_moves(state, depth, sorted(valid_moves(state)),
                                            [st EXCEPT !.q = Tail(@)]))

\* rollout up to its while loop
rollout_init(node_state) ==
    LET state == copy(node_state)
    IN [ q |-> << <<state, 0>> >>, visited |-> set_of_chars(state.hash),
         max_reward |-> reward(state), returned |-> FALSE,
         put |-> <<state.hash>> ]

\* the locals of rollout as it returns
rollout_run(node_state) == rollout_loop(rollout_init(node_state))

\* node.rollout(), for the state of the node
rollout(node_state) == rollout_run(node_state).max_reward

-----------------------------------------------------------------------------
(* agent/MCTS.py: MCTS *)

root == 1

\* the nodes select_leaf may return
RECURSIVE select_leaf(_, _)
select_leaf(w, node) ==
    IF node # None /\ DOMAIN w.heap[node].children # {}
                   /\ w.heap[node].reward.reward_type = "STEP"
    THEN UNION { select_leaf(w, c) : c \in select_child(w, node) }
    ELSE {node}

expand(w, node) == expand_node(w, node, valid_moves(w.heap[node].state))

\* a find that leaves out the move that reaches a state
RECURSIVE find_moves_short(_, _, _, _)
find_moves_short(state, moves, todo, st) ==
    IF todo = <<>> THEN st
    ELSE LET new_state == move(state, Head(todo))
         IN IF new_state.hash \notin st.visited
            THEN find_moves_short(state, moves, Tail(todo),
                   [st EXCEPT !.visited = @ \cup {new_state.hash},
                              !.q = Append(@, <<new_state, moves>>)])
            ELSE find_moves_short(state, moves, Tail(todo), st)

\* the for loop of find over the moves left of one dequeued state;
\* st = [q, visited]
RECURSIVE find_moves(_, _, _, _)
find_moves(state, moves, todo, st) ==
    IF todo = <<>> THEN st
    ELSE LET new_state == move(state, Head(todo))
         IN IF new_state.hash \notin st.visited
            THEN find_moves(state, moves, Tail(todo),
                   [st EXCEPT !.visited = @ \cup {new_state.hash},
                              !.q = Append(@, <<new_state, Append(moves, Head(todo))>>)])
            ELSE find_moves(state, moves, Tail(todo), st)

RECURSIVE find_loop(_)
find_loop(st) ==
    IF st.q = <<>> THEN <<>>
    ELSE LET state == Head(st.q)[1]
             moves == Head(st.q)[2]
         IN IF reward(state).reward_type = "WIN" THEN moves
            ELSE find_loop(find_moves(state, moves, sorted(valid_moves(state)),
                                      [st EXCEPT !.q = Tail(@)]))

find(state) ==
    find_loop([ q |-> << <<state, <<>> >> >>, visited |-> set_of_chars(state.hash) ])

\* the while loop of run that walks down from the root by select_move:
\* the <<node, moves>> it may end with
RECURSIVE walk_down(_, _, _)
walk_down(w, node, moves) ==
    IF DOMAIN w.heap[node].children = {} THEN { <<node, moves>> }
    ELSE UNION { walk_down(w, w.heap[node].children[m], Append(moves, m)) :
                   m \in select_move(w, node) }

\* the move lists run may return once its loop has ended
run_moves(w) ==
    IF w.heap[root].max_value.reward_type = "WIN"
    THEN { IF reward(w.heap[t[1]].state).reward_type # "WIN"
           THEN t[2] \o find(w.heap[t[1]].state)
           ELSE t[2] :
             t \in walk_down(w, root, <<>>) }
    ELSE { IF best_move = NoMove THEN <<>> ELSE <<again>> :
             best_move \in select_move(w, root), again \in select_move(w, root) }

\* reward = node.rollout(); node.update(reward.get_value(), reward)
rollout_update(w, node) ==
    LET r == rollout(w.heap[node].state)
    IN update(w, node, r.value, r)

-----------------------------------------------------------------------------
(* A run of the search: MCTS(board).run(simulations) *)

\* one push from the goal
S1 ==
    << <<"#", "#", "#", "#", "#">>,
       <<"#", "@", "$", ".", "#">>,
       <<"#", "#", "#", "#", "#">> >>

\* solved from the start
S2 ==
    << <<"#", "#", "#">>,
       <<"#", "*", "#">>,
       <<"#", "@", "#">>,
       <<"#", "#", "#">> >>

\* the box is wedged in a corner: no push at all
Corner ==
    << <<"#", "#", "#", "#", "#">>,
       <<"#", "@", " ", ".", "#">>,
       <<"#", " ", " ", "$", "#">>,
       <<"#", "#", "#", "#", "#">> >>

\* the only push wedges the box
DeadEnd ==
    << <<"#", "#", "#", "#", "#", "#", "#">>,
       <<"#", ".", " ", "@", "$", " ", "#">>,
       <<"#", "#", "#", "#", "#", "#", "#">> >>

\* the pushes lead away from the goal, two of them
Away ==
    << <<"#", "#", "#", "#", "#", "#", "#", "#">>,
       <<"#", ".", " ", "@", "$", " ", " ", "#">>,
       <<"#", "#", "#", "#", "#", "#", "#", "#">> >>

\* eight pushes from the goal, and a push that wedges the box
Pocket ==
    << <<"#", "#", "#", "#", "#", "#", "#", "#", "#", "#", "#", "#">>,
       <<"#", "@", "$", " ", " ", " ", " ", " ", " ", " ", ".", "#">>,
       <<"#", " ", " ", " ", "#", "#", "#", "#", "#", "#", "#", "#">>,
       <<"#", "#", "#", "#", "#", "#", "#", "#", "#", "#", "#", "#">> >>

\* a box in the middle of a room, its goal walled off
Room3 ==
    << <<"#", "#", "#", "#", "#", "#", "#">>,
       <<"#", ".", "#", " ", " ", " ", "#">>,
       <<"#", "#", "#", " ", "$", " ", "#">>,
       <<"#", "#", "#", "@", " ", " ", "#">>,
       <<"#", "#", "#", "#", "#", "#", "#">> >>

\* a box that can be pushed to and fro along a wall, its goal walled off:
\* a push back leads to a board the tree holds already
Alley ==
    << <<"#", "#", "#", "#", "#", "#", "#", "#", "#">>,
       <<"#", ".", "#", " ", " ", " ", " ", " ", "#">>,
       <<"#", "#", "#", "@", "$", " ", " ", " ", "#">>,
       <<"#", "#", "#", "#", "#", "#", "#", "#", "#">> >>

Levels == {S1, S2, Corner, DeadEnd, Away, Pocket, Room3, Alley}

\* MCTS(board), and the call of run(simulations)
Init ==
    /\ \E lines \in Levels, max_steps \in MaxStepsChoices :
          board = LoadBoard(lines, max_steps)
    /\ heap = << Node(None, board, NoMove, 0) >>
    /\ nodes = (board.hash :> root)
    /\ del_nodes = {}
    /\ simulations \in 0..MaxSims
    /\ i = 0
    /\ pc = "running"
    /\ result = NoResult
    /\ err = ""
    /\ hist = << <<>> >>
    /\ oplog = << [keys |-> {board.hash}, del |-> {}] >>
    /\ rmlog = <<>>

\* the loop of run goes on: i is in range(simulations) and the break at the
\* end of the previous iteration was not taken
Looping ==
    /\ i < simulations
    /\ (i = 0 \/ heap[root].max_value.reward_type # "WIN")

\* the world as a step of run leaves it
Leave(w) ==
    /\ heap' = w.heap
    /\ nodes' = w.nodes
    /\ del_nodes' = w.del_nodes
    /\ hist' = w.hist
    /\ oplog' = w.oplog
    /\ rmlog' = w.rmlog
    /\ err' = w.err

\* an iteration of run's for loop ends, or an exception leaves it
Iterated(w) ==
    /\ Leave(w)
    /\ IF w.err # ""
       THEN pc' = "raised" /\ i' = i
       ELSE pc' = "running" /\ i' = i + 1
    /\ UNCHANGED result

\* one iteration of run's for loop
Iterate ==
    /\ pc = "running"
    /\ Looping
    /\ \E node \in select_leaf(World, root) :
          IF i = 2000
          THEN /\ Leave(Raise(World, "AssertionError"))
               /\ pc' = "raised"
               /\ UNCHANGED <<i, result>>
          ELSE IF node = None
          THEN /\ Leave(World)
               /\ pc' = "returned"
               /\ result' = [none |-> TRUE, moves |-> <<>>]
               /\ UNCHANGED i
          ELSE IF heap[node].n = 0
          THEN Iterated(rollout_update(World, node))
          ELSE LET w == expand(World, node)
               IN IF w.err = "" /\ DOMAIN w.heap[node].children # {}
                  THEN \E child \in Range(w.heap[node].children) :
                          Iterated(rollout_update(w, child))
                  ELSE Iterated(w)
    /\ UNCHANGED <<board, simulations>>

\* the end of run after its loop
Return ==
    /\ pc = "running"
    /\ ~ Looping
    /\ \E moves \in run_moves(World) :
          result' = [none |-> FALSE, moves |-> moves]
    /\ pc' = "returned"
    /\ UNCHANGED <<board, heap, nodes, del_nodes, simulations, i, err, hist, oplog,
                   rmlog>>

Next == Iterate \/ Return

Spec == Init /\ [][Next]_vars

\* MCTS(board).run(simulations) for a board constructed with steps already
\* counted: SokobanBoard(level=..., player=..., steps=..., max_steps=...)
BudgetRunInit ==
    /\ \E lines \in Levels, steps \in StepsChoices, max_steps \in MaxStepsChoices :
          LET loaded == LoadBoard(lines, max_steps)
          IN board = SokobanBoard(loaded.level, loaded.player, steps, max_steps)
    /\ heap = << Node(None, board, NoMove, 0) >>
    /\ nodes = (board.hash :> root)
    /\ del_nodes = {}
    /\ simulations \in 0..MaxSims
    /\ i = 0
    /\ pc = "running"
    /\ result = NoResult
    /\ err = ""
    /\ hist = << <<>> >>
    /\ oplog = << [keys |-> {board.hash}, del |-> {}] >>
    /\ rmlog = <<>>

BudgetRunSpec == BudgetRunInit /\ [][Next]_vars

-----------------------------------------------------------------------------
(* Properties of the board *)

UnitDirections == { <<0, 1>>, <<1, 0>>, <<0, -1>>, <<-1, 0>> }

BoxCells(level) == { p \in DOMAIN level : level[p] \in {BOX, BOX_ON_GOAL} }

GoalCells(level) ==
    { p \in DOMAIN level : level[p] \in {GOAL, BOX_ON_GOAL, PLAYER_ON_GOAL} }

PlayerCells(level) ==
    { p \in DOMAIN level : level[p] \in {PLAYER, PLAYER_ON_GOAL} }

\* the cells the player can walk to: the least set holding the player's cell
\* and every cell without wall or box next to one of its cells
RECURSIVE WalkFrom(_, _)
WalkFrom(level, R) ==
    LET N == R \cup { q \in DOMAIN level :
                        /\ level[q] \notin {WALL, BOX, BOX_ON_GOAL}
                        /\ \E p \in R : Abs(p[1] - q[1]) + Abs(p[2] - q[2]) = 1 }
    IN IF N = R THEN R ELSE WalkFrom(level, N)

Walkable(B) == WalkFrom(B.level, {B.player})

\* the well-formed boards over the walls and goals of B: as many boxes on any
\* cells, the player on any cell, another number of steps
Alternatives(B) ==
    LET free == { p \in DOMAIN B.level : B.level[p] # WALL }
    IN { SokobanBoard(Place(B.level, GoalCells(B.level), t[1], t[2]),
                      t[2], t[3], MAX_STEP) :
           t \in { u \in (SUBSET free) \X free \X {B.steps + 1} :
                     /\ Cardinality(u[1]) = Cardinality(BoxCells(B.level))
                     /\ u[2] \notin u[1] } }

\* C7: every push of valid_moves passes the assertions of move and yields a
\* board with the same boxes and goals in number, one player cell, which is
\* the cell the pushed box left, and one more step
C7_MoveConserves ==
    pc = "board" =>
        \A m \in valid_moves(board) :
            LET new_board == move(board, m)
                former == <<m[1] + m[3], m[2] + m[4]>>
            IN /\ move_asserts(board, m)
               /\ former \in BoxCells(board.level)
               /\ Cardinality(BoxCells(new_board.level))
                     = Cardinality(BoxCells(board.level))
               /\ Cardinality(GoalCells(new_board.level))
                     = Cardinality(GoalCells(board.level))
               /\ PlayerCells(new_board.level) = {former}
               /\ new_board.player = former
               /\ new_board.steps = board.steps + 1

\* a board a push produced, which has pushes of its own, one onto a goal
C7_Witness ==
    /\ pc = "board"
    /\ board.steps > 0
    /\ \E m \in valid_moves(board) :
          board.level[<<m[1] + 2 * m[3], m[2] + 2 * m[4]>>] = GOAL

\* C8: from a board check_deadlock reports, no sequence of one or more valid
\* pushes reaches a board of reward kind WIN
C8_DeadlockMonotone ==
    (pc = "board" /\ check_deadlock(board)) =>
        \A P \in Descendants(board) : Kind(P) # "WIN"

\* a deadlocked board that still has pushes
C8_Witness ==
    /\ pc = "board"
    /\ check_deadlock(board)
    /\ Descendants(board) # {}

\* C9: over one wall and goal layout, two boards have the same hash exactly
\* when their boxes are on the same cells and the player of the one stands
\* in the interior of the other
C9_HashCanonical ==
    pc = "board" =>
        LET boxes == BoxCells(board.level)
            walk == Walkable(board)
        IN \A alt \in Alternatives(board) :
              (alt.hash = board.hash)
                  <=> /\ BoxCells(alt.level) = boxes
                      /\ alt.player \in walk

\* a board with a second cell in its interior and a free cell outside it
C9_Witness ==
    /\ pc = "board"
    /\ \E alt \in Alternatives(board) :
          /\ alt.hash = board.hash
          /\ alt.player # board.player
          /\ alt.steps # board.steps
    /\ \E alt \in Alternatives(board) :
          /\ BoxCells(alt.level) = BoxCells(board.level)
          /\ alt.hash # board.hash

\* the pushes the claim describes
PushesOf(B) ==
    { <<p[1], p[2], d[1], d[2]>> :
        p \in { q \in DOMAIN B.level : q \in Walkable(B) },
        d \in UnitDirections }
    \cap
    { t \in (0..shape(B.level)[1]) \X (0..shape(B.level)[2]) \X {-1, 0, 1} \X {-1, 0, 1} :
        /\ <<t[1] + t[3], t[2] + t[4]>> \in BoxCells(B.level)
        /\ <<t[1] + 2 * t[3], t[2] + 2 * t[4]>> \in DOMAIN B.level
        /\ B.level[<<t[1] + 2 * t[3], t[2] + 2 * t[4]>>]
              \notin {WALL, BOX, BOX_ON_GOAL} }

\* C10: valid_moves is exactly the set of (px, py, dx, dy), (dx, dy) a unit
\* direction, with (px, py) walkable from the player, a box on the next cell
\* and neither wall nor box on the cell after it
C10_ValidMovesExact == pc = "board" => valid_moves(board) = PushesOf(board)

\* a board with a push, a box the player can stand at but whose far side is
\* blocked, and a box with nothing behind whose near side the player cannot
\* reach
C10_Witness ==
    /\ pc = "board"
    /\ valid_moves(board) # {}
    /\ \E b \in BoxCells(board.level), d \in UnitDirections :
          /\ <<b[1] - d[1], b[2] - d[2]>> \in Walkable(board)
          /\ board.level[<<b[1] + d[1], b[2] + d[2]>>] \in {WALL, BOX, BOX_ON_GOAL}
    /\ \E b \in BoxCells(board.level), d \in UnitDirections :
          /\ board.level[<<b[1] - d[1], b[2] - d[2]>>] \in {FLOOR, GOAL}
          /\ <<b[1] - d[1], b[2] - d[2]>> \notin Walkable(board)
          /\ board.level[<<b[1] + d[1], b[2] + d[2]>>]
                \notin {WALL, BOX, BOX_ON_GOAL}

BoxOffGoal(B) == \E p \in DOMAIN B.level : B.level[p] = BOX

BudgetExceeded(B) == B.steps > B.max_steps

\* C11 as stated: on every board, the reward is of kind LOSS exactly when
\* the board is deadlocked or its step budget is exceeded
C11_LossIffDeadOrOver ==
    pc = "board" =>
        (reward(board).reward_type = "LOSS"
            <=> (check_deadlock(board) \/ BudgetExceeded(board)))

\* C11: the reward is of kind WIN exactly when no box is off its goal, and
\* of kind LOSS exactly when a box is off its goal and the board is
\* deadlocked or its step budget is exceeded
C11_LossUnlessSolved ==
    pc = "board" =>
        /\ reward(board).reward_type = "WIN" <=> ~ BoxOffGoal(board)
        /\ reward(board).reward_type = "LOSS"
              <=> /\ BoxOffGoal(board)
                  /\ (check_deadlock(board) \/ BudgetExceeded(board))

\* a board with a box off its goal and pushes left, lost by its step budget
\* alone
C11_Witness ==
    /\ pc = "board"
    /\ BoxOffGoal(board)
    /\ ~ check_deadlock(board)
    /\ BudgetExceeded(board)
    /\ reward(board).reward_type = "LOSS"

-----------------------------------------------------------------------------
(* Properties of the search *)

Searching == pc # "board"

RootRemoved == Searching /\ heap[root].state.hash \in del_nodes

\* the kind of the board the pushes lead to from B, each applied by move
RECURSIVE AppliedKind(_, _)
AppliedKind(B, moves) ==
    IF moves = <<>> THEN reward(B).reward_type
    ELSE IF move_asserts(B, Head(moves))
         THEN AppliedKind(move(B, Head(moves)), Tail(moves))
         ELSE "AssertionError"

RootWin == Searching /\ heap[root].max_value.reward_type = "WIN"

\* C1 as stated: whatever list run returns leads to a WIN board
C1_EveryListWins ==
    (pc = "returned" /\ ~ result.none) =>
        AppliedKind(board, result.moves) = "WIN"

\* C1: the list run returns when the root's max_value is of kind WIN leads,
\* push by push from the initial board, to a board of kind WIN
C1_WinListWins ==
    (pc = "returned" /\ ~ result.none /\ RootWin) =>
        AppliedKind(board, result.moves) = "WIN"

\* a returned solution whose first push is a tree edge and whose rest find
\* supplied
C1_Witness ==
    /\ pc = "returned"
    /\ RootWin
    /\ DOMAIN heap[root].children # {}
    /\ Len(result.moves) > 1

\* C2: with the root removed and simulations left, run returns None and
\* raises nothing
C2_ExhaustedReturnsNone ==
    (RootRemoved /\ pc # "running" /\ i < simulations) =>
        (pc = "returned" /\ result.none /\ err = "")

NoBudgetExceeded ==
    \A k \in DOMAIN heap : heap[k].state.steps <= heap[k].state.max_steps

\* C3: the root is removed only when no WIN board can be reached from the
\* initial board
C3_PruningSound ==
    (RootRemoved /\ NoBudgetExceeded) => ~ WinReachable(board)

\* the root fell to a cascade that began two levels below it
C3_Witness ==
    /\ RootRemoved
    /\ NoBudgetExceeded
    /\ \E k \in DOMAIN heap : heap[k].depth >= 2

\* C4: nodes and del_nodes share no hash, after every operation
C4_RegistriesDisjoint ==
    Searching =>
        /\ DOMAIN nodes \cap del_nodes = {}
        /\ \A k \in DOMAIN oplog : oplog[k].keys \cap oplog[k].del = {}

\* an iteration whose expansion removed children and, by the cascade, their
\* parent, with nodes left in the tree
C4_Witness ==
    /\ Searching
    /\ Len(oplog) >= 3
    /\ del_nodes # {}
    /\ DOMAIN nodes # {}

\* the nodes of the tree: those the children mappings reach from the root
RECURSIVE Subtree(_)
Subtree(id) == {id} \cup UNION { Subtree(c) : c \in Range(heap[id].children) }

Max(S) == CHOOSE m \in S : \A n \in S : n <= m

MaxChildValue(id) ==
    Max({ heap[c].max_value.value : c \in Range(heap[id].children) })

\* C5 as stated: max_value >= the best child's max_value >= own reward
C5_ChainOfValues ==
    Searching =>
        \A id \in Subtree(root) :
            DOMAIN heap[id].children # {} =>
                /\ heap[id].max_value.value >= MaxChildValue(id)
                /\ MaxChildValue(id) >= heap[id].reward.value

\* C5: max_value is at least the best child's max_value, and at least the
\* node's own reward
C5_MaxValueBounds ==
    Searching =>
        \A id \in Subtree(root) :
            DOMAIN heap[id].children # {} =>
                /\ heap[id].max_value.value >= MaxChildValue(id)
                /\ heap[id].max_value.value >= heap[id].reward.value

\* a node with several children, all rolled out, whose max_value has risen
\* above its own reward
C5_Witness ==
    /\ Searching
    /\ \E id \in Subtree(root) :
          /\ Cardinality(DOMAIN heap[id].children) >= 2
          /\ \A c \in Range(heap[id].children) : heap[c].n > 0
          /\ heap[id].max_value.value > heap[id].reward.value

RECURSIVE Sum(_)
Sum(s) == IF s = <<>> THEN 0 ELSE Head(s) + Sum(Tail(s))

RECURSIVE SumOfSquares(_)
SumOfSquares(s) == IF s = <<>> THEN 0 ELSE Head(s) * Head(s) + SumOfSquares(Tail(s))

\* C6 as stated: q * n, n and sum_of_squares are the sum, the number and the
\* sum of squares of the values backpropagated through the node
C6_StatisticsOfValues ==
    Searching =>
        \A id \in DOMAIN heap :
            /\ heap[id].q[1] * heap[id].n = Sum(hist[id]) * heap[id].q[2]
            /\ heap[id].n = Len(hist[id])
            /\ heap[id].sum_of_squares = SumOfSquares(hist[id])

\* C6: q * n and n are the sum and the number of the values backpropagated
\* through the node; sum_of_squares is the square of the node's own reward
\* plus the sum of their squares
C6_StatisticsWithOwnReward ==
    Searching =>
        \A id \in DOMAIN heap :
            /\ heap[id].q[1] * heap[id].n = Sum(hist[id]) * heap[id].q[2]
            /\ heap[id].n = Len(hist[id])
            /\ heap[id].sum_of_squares =
                  heap[id].reward.value * heap[id].reward.value
                     + SumOfSquares(hist[id])

\* a node with three values backpropagated, not all the same, some from a
\* child
C6_Witness ==
    /\ Searching
    /\ \E id \in DOMAIN heap :
          /\ Len(hist[id]) >= 3
          /\ hist[id][1] # hist[id][2]
          /\ DOMAIN heap[id].children # {}

\* C12: no board of the search whose steps exceed the max_steps the initial
\* board was constructed with, and which has a box off its goal, has a reward
\* of another kind than LOSS
C12_HardCutoff ==
    Searching =>
        \A k \in DOMAIN heap :
            (heap[k].state.steps > board.max_steps /\ BoxOffGoal(heap[k].state))
                => heap[k].reward.reward_type = "LOSS"

\* the boards one valid push away from a board of S
Pushed(S) == UNION { { move(B, m) : m \in valid_moves(B) } : B \in S }

\* some WIN board lies at most n pushes from a board of S, along a path whose
\* boards in between are all of kind STEP
RECURSIVE WinWithin(_, _)
WinWithin(S, n) ==
    IF n = 0 \/ S = {} THEN FALSE
    ELSE LET kinds == { <<B, reward(B).reward_type>> : B \in Pushed(S) }
         IN \/ \E t \in kinds : t[2] = "WIN"
            \/ WinWithin({ t[1] : t \in { u \in kinds : u[2] = "STEP" } }, n - 1)

\* C13: the rollout of a node is of kind WIN exactly when the node's board
\* is WIN or a WIN board lies at most LOOKAHEAD pushes away along a path
\* whose boards in between are of kind STEP
C13_RolloutFindsWin ==
    Searching =>
        \A k \in DOMAIN heap :
            rollout(heap[k].state).reward_type = "WIN"
                <=> \/ reward(heap[k].state).reward_type = "WIN"
                    \/ WinWithin({heap[k].state}, LOOKAHEAD)

\* the root, LOOKAHEAD + 1 pushes from the nearest WIN, was rolled out and
\* got no WIN; its child, LOOKAHEAD pushes from it, was rolled out and did
C13_Witness ==
    /\ Searching
    /\ Len(hist[root]) >= 2
    /\ ~ WinWithin({heap[root].state}, LOOKAHEAD)
    /\ WinWithin({heap[root].state}, LOOKAHEAD + 1)
    /\ heap[root].max_value.reward_type = "WIN"
    /\ \E c \in Range(heap[root].children) :
          /\ Len(hist[c]) = 1
          /\ WinWithin({heap[c].state}, LOOKAHEAD)
          /\ ~ WinWithin({heap[c].state}, LOOKAHEAD - 1)
          /\ heap[c].max_value.reward_type = "WIN"

\* the tree is the registry: the nodes under the root are the values of
\* nodes, each under its own hash, no two with one hash, none deleted
TreeIsRegistry ==
    /\ Range(nodes) = Subtree(root)
    /\ \A h \in DOMAIN nodes : heap[nodes[h]].state.hash = h
    /\ \A a, b \in Subtree(root) :
          a # b => heap[a].state.hash # heap[b].state.hash
    /\ \A a \in Subtree(root) : heap[a].state.hash \notin del_nodes
    /\ Cardinality(DOMAIN nodes)
          = Cardinality({ heap[a].state.hash : a \in Subtree(root) })

\* C14 as stated: after construction and after every iteration the tree,
\* the root included, is the registry
C14_TreeAlwaysRegistry == Searching => TreeIsRegistry

\* C14: the tree is the registry as long as the root has not been removed;
\* once it has, the root has no child and nodes is empty
C14_LiveTreeIsRegistry ==
    Searching =>
        IF RootRemoved
        THEN DOMAIN heap[root].children = {} /\ DOMAIN nodes = {}
        ELSE TreeIsRegistry

\* a tree of three nodes or more, after removals, one of whose expanded
\* nodes has a push to a board that was in the tree already
C14_Witness ==
    /\ Searching
    /\ ~ RootRemoved
    /\ Cardinality(Subtree(root)) >= 3
    /\ del_nodes # {}
    /\ \E k \in Subtree(root) :
          /\ DOMAIN heap[k].children # {}
          /\ \E m \in valid_moves(heap[k].state) :
                /\ m \notin DOMAIN heap[k].children
                /\ move(heap[k].state, m).hash \in DOMAIN nodes

\* C15: a node of the tree whose max_value is of kind WIN has a parent whose
\* max_value is of kind WIN, and so has every ancestor up to the root
C15_WinReachesRoot ==
    Searching =>
        \A id \in Subtree(root) :
            (id # root /\ heap[id].max_value.reward_type = "WIN")
                => heap[heap[id].parent].max_value.reward_type = "WIN"

\* a node below the root whose rollout found a WIN its own board is not
C15_Witness ==
    /\ Searching
    /\ \E id \in Subtree(root) :
          /\ id # root
          /\ heap[id].reward.reward_type = "STEP"
          /\ heap[id].max_value.reward_type = "WIN"
          /\ heap[root].reward.reward_type = "STEP"

\* C16: in the rollout of a node, visited holds the hash of the starting
\* board from the beginning, and no hash is put into the queue twice
C16_NoHashPutTwice ==
    Searching =>
        \A k \in DOMAIN heap :
            hist[k] # <<>> =>
                /\ heap[k].state.hash \in rollout_init(heap[k].state).visited
                /\ LET put == rollout_run(heap[k].state).put
                   IN \A a, b \in DOMAIN put : a # b => put[a] # put[b]

\* C17: when run returns with the root's max_value not of kind WIN, it
\* returns the empty list if the root has no children, and else the one move
\* of a root child whose max_value is the greatest among the root's children
C17_BestRootPush ==
    (pc = "returned" /\ ~ result.none /\ ~ RootWin) =>
        LET children == Range(heap[root].children)
        IN IF children = {} THEN result.moves = <<>>
           ELSE /\ Len(result.moves) = 1
                /\ \E c \in children :
                      /\ heap[c].move = result.moves[1]
                      /\ \A d \in children :
                            heap[d].max_value.value <= heap[c].max_value.value

\* run returned one push of a root with children of different max_value
C17_Witness ==
    /\ pc = "returned"
    /\ ~ result.none
    /\ ~ RootWin
    /\ Len(result.moves) = 1
    /\ \E c, d \in Range(heap[root].children) :
          heap[c].max_value.value < heap[d].max_value.value

\* C18: every call of remove is on a node without children, and once it has
\* unlinked the node it goes on to the parent exactly when the parent has no
\* children left and a max_value that is not of kind WIN
C18_CascadeExact ==
    Searching =>
        \A k \in DOMAIN rmlog :
            /\ rmlog[k].children = 0
            /\ rmlog[k].unlinked =>
                  (rmlog[k].cascaded
                      <=> (rmlog[k].parent_empty /\ ~ rmlog[k].parent_win))
            /\ rmlog[k].cascaded =>
                  /\ k + 1 \in DOMAIN rmlog
                  /\ rmlog[k + 1].node = heap[rmlog[k].node].parent

\* an expansion that removed a child whose parent kept another child, then
\* a child whose removal took the parent with it and stopped at the
\* grandparent, which kept a child
C18_Witness ==
    /\ Searching
    /\ \E k \in DOMAIN rmlog : rmlog[k].unlinked /\ ~ rmlog[k].cascaded
    /\ \E k \in DOMAIN rmlog :
          /\ rmlog[k].cascaded
          /\ rmlog[k + 1].unlinked
          /\ ~ rmlog[k + 1].cascaded
          /\ ~ rmlog[k + 1].parent_empty

\* the node k was expanded and gave no node to its push m
Skipped(k, m) ==
    /\ \E c \in DOMAIN heap : heap[c].parent = k
    /\ ~ \E c \in DOMAIN heap : heap[c].parent = k /\ heap[c].move = m

\* C19: no two nodes were ever created for one hash; a step creates no node
\* for a hash that was in nodes or in del_nodes, takes nothing out of
\* del_nodes, and puts no hash of del_nodes into nodes
C19_OneNodePerHash ==
    /\ [](Searching =>
            \A a, b \in DOMAIN heap :
                a # b => heap[a].state.hash # heap[b].state.hash)
    /\ [][ /\ \A k \in (DOMAIN heap') \ (DOMAIN heap) :
                heap'[k].state.hash \notin (DOMAIN nodes) \cup del_nodes
           /\ del_nodes \subseteq del_nodes'
           /\ \A h \in del_nodes : h \notin DOMAIN nodes' ]_vars

\* an expanded node gave no node to a push that leads to a board of the
\* tree, while a board removed earlier stays in del_nodes
C19_Witness ==
    /\ Searching
    /\ \E k \in DOMAIN heap : heap[k].state.hash \in del_nodes
    /\ \E k \in DOMAIN heap :
          \E m \in valid_moves(heap[k].state) :
              /\ Skipped(k, m)
              /\ move(heap[k].state, m).hash \in DOMAIN nodes

\* C20: every node of the tree below the root has a reward of kind STEP or
\* WIN, and its hash is not in del_nodes
C20_NoLossInTree ==
    Searching =>
        \A id \in Subtree(root) \ {root} :
            /\ heap[id].reward.reward_type \in {"STEP", "WIN"}
            /\ heap[id].state.hash \notin del_nodes

\* an expansion created a child of kind LOSS and removed it, and left its
\* node with another child
C20_Witness ==
    /\ Searching
    /\ \E c \in DOMAIN heap :
          /\ heap[c].reward.reward_type = "LOSS"
          /\ heap[c].parent # None
          /\ heap[c].parent \in Subtree(root)
          /\ DOMAIN heap[heap[c].parent].children # {}
          /\ c \notin Subtree(root)

\* the node has a reward or a max_value of kind WIN
HoldsWin(k) ==
    \/ heap[k].reward.reward_type = "WIN"
    \/ heap[k].max_value.reward_type = "WIN"

\* C21: a node with a reward or a max_value of kind WIN stays in the tree and
\* in nodes and is never handed to remove, and the assertion before the
\* removal of a node that got no child never fails
C21_WinKeptAssertHolds ==
    Searching =>
        /\ \A k \in DOMAIN heap :
              HoldsWin(k) =>
                  /\ k \in Subtree(root)
                  /\ heap[k].state.hash \notin del_nodes
                  /\ heap[k].state.hash \in DOMAIN nodes
                  /\ nodes[heap[k].state.hash] = k
        /\ \A k \in DOMAIN rmlog : ~ HoldsWin(rmlog[k].node)
        /\ err # AssertNoChildAdded

====
